---- MODULE Spec2Model ----
(***************************************************************************)
(* A model of the PLP Python client (sdks/python/src/plp_client/client.py):*)
(* the content model and its wire conversion, the prompt entities, the     *)
(* unified error type and the client operations get / put / delete /       *)
(* fetch / save on top of PLPClient._request.                              *)
(*                                                                         *)
(* Representation of Python values:                                        *)
(*   str            a sequence of atoms (each atom stands for one symbol   *)
(*                  of the alphabet), so "" is << >> and f-strings and +   *)
(*                  are \o;                                                *)
(*   Optional[T]    None is << >>, a present value v is << v >>;           *)
(*   dict           a function whose domain is the set of keys;            *)
(*   list           a sequence;                                            *)
(*   an evaluation  Ok(v) when it returns v, Raise(exc, ..) when it        *)
(*                  raises.                                                *)
(***************************************************************************)
EXTENDS Integers, Sequences, FiniteSets, TLC

\* ------------------------------------------------------------------ bounds

\* Longest content sequence drawn as an input of the content conversions.
MaxParts == 3

\* ------------------------------------------------------- Python primitives

None == << >>

Some(v) == << v >>

\* Truthiness of a str: only "" is falsy.
Truthy(s) == s # << >>

\* Truthiness of an Optional[str]: None and "" are falsy.
TruthyOpt(o) == o # None /\ Truthy(o[1])

Ok(v) == [ok |-> TRUE, val |-> v]

Raise(exc, message, status_code, response) ==
    [ok |-> FALSE, exc |-> exc, message |-> message,
     status_code |-> status_code, response |-> response]

\* An exception other than PLPError: it has no status_code or response.
RaiseBuiltin(exc, message) == Raise(exc, message, None, None)

\* dict.get(key) on a dict of str values: None when the key is missing.
DictGet(d, key) == IF key \in DOMAIN d THEN Some(d[key]) ELSE None

\* ------------------------------------------------------------ content model

TagText == << "text" >>

TagImage == << "image_url" >>

TextContent(text) == [type |-> TagText, text |-> text]

ImageUrl(url, detail) == [url |-> url, detail |-> detail]

ImageContent(image_url) == [type |-> TagImage, image_url |-> image_url]

TextContent_to_dict(self) == [type |-> self.type, text |-> self.text]

TextContent_from_dict(data) ==
    IF "text" \in DOMAIN data
    THEN Ok(TextContent(data.text))
    ELSE RaiseBuiltin("KeyError", << "text" >>)

\* A plausible slip: the detail is never written.
ImageUrl_to_dict_NoDetail(self) == [url |-> self.url]

ImageUrl_to_dict(self) ==
    IF TruthyOpt(self.detail)
    THEN [url |-> self.url, detail |-> self.detail[1]]
    ELSE [url |-> self.url]

ImageUrl_from_dict(data) ==
    IF "url" \in DOMAIN data
    THEN Ok(ImageUrl(data.url, DictGet(data, "detail")))
    ELSE RaiseBuiltin("KeyError", << "url" >>)

ImageContent_to_dict(self) ==
    [type |-> self.type, image_url |-> ImageUrl_to_dict(self.image_url)]

ImageContent_from_dict(data) ==
    IF "image_url" \in DOMAIN data
    THEN LET iu == ImageUrl_from_dict(data.image_url)
         IN  IF iu.ok THEN Ok(ImageContent(iu.val)) ELSE iu
    ELSE RaiseBuiltin("KeyError", << "image_url" >>)

\* part.to_dict() dispatches on the part's class.
Part_to_dict(part) ==
    IF part.type = TagText
    THEN TextContent_to_dict(part)
    ELSE ImageContent_to_dict(part)

UnknownTypeMessage(tag) == << "Unknown content part type: " >> \o tag

\* A plausible slip: an unknown tag falls back to an empty text part.
content_part_from_dict_Default(data) ==
    IF "type" \notin DOMAIN data
    THEN RaiseBuiltin("KeyError", << "type" >>)
    ELSE IF data.type = TagText
    THEN TextContent_from_dict(data)
    ELSE IF data.type = TagImage
    THEN ImageContent_from_dict(data)
    ELSE Ok(TextContent(<< >>))

content_part_from_dict(data) ==
    IF "type" \notin DOMAIN data
    THEN RaiseBuiltin("KeyError", << "type" >>)
    ELSE IF data.type = TagText
    THEN TextContent_from_dict(data)
    ELSE IF data.type = TagImage
    THEN ImageContent_from_dict(data)
    ELSE RaiseBuiltin("ValueError", UnknownTypeMessage(data.type))

\* PromptContent and its wire form are Union[str, list]: the kind field is
\* what isinstance(.., str) reads.
StrContent(s) == [kind |-> "str", s |-> s]

ListContent(parts) == [kind |-> "list", parts |-> parts]

\* [content_part_from_dict(part) for part in data]: the comprehension stops
\* at the first element that raises and the exception leaves it.
RECURSIVE DecodeParts(_)
DecodeParts(items) ==
    IF items = << >>
    THEN Ok(<< >>)
    ELSE LET head == content_part_from_dict(Head(items))
         IN  IF ~head.ok
             THEN head
             ELSE LET rest == DecodeParts(Tail(items))
                  IN  IF rest.ok THEN Ok(<< head.val >> \o rest.val) ELSE rest

content_from_dict(data) ==
    IF data.kind = "str"
    THEN Ok(StrContent(data.s))
    ELSE IF data.kind = "list"
    THEN LET parts == DecodeParts(data.parts)
         IN  IF parts.ok THEN Ok(ListContent(parts.val)) ELSE parts
    ELSE RaiseBuiltin("TypeError", << "object is not iterable" >>)

content_to_dict(content) ==
    IF content.kind = "str"
    THEN StrContent(content.s)
    ELSE ListContent([i \in 1..Len(content.parts) |-> Part_to_dict(content.parts[i])])

\* -------------------------------------------------------- helper functions

\* isinstance(part, ImageContent): the class with the image_url field.
IsImageContent(part) == "image_url" \in DOMAIN part

\* isinstance(part, TextContent): the class with the text field.
IsTextContent(part) == "text" \in DOMAIN part

\* isinstance(prompt, PromptEnvelope): the class with the id field.
IsPromptEnvelope(prompt) == "id" \in DOMAIN prompt

\* A plausible slip: all() where any() is meant.
is_multi_modal_All(prompt) ==
    LET content == IF IsPromptEnvelope(prompt) THEN prompt.content ELSE prompt
    IN  IF content.kind = "str"
        THEN FALSE
        ELSE \A i \in 1..Len(content.parts) :
                IsImageContent(content.parts[i]) \/ content.parts[i].type = TagImage

is_multi_modal(prompt) ==
    LET content == IF IsPromptEnvelope(prompt) THEN prompt.content ELSE prompt
    IN  IF content.kind = "str"
        THEN FALSE
        ELSE \E i \in 1..Len(content.parts) :
                IsImageContent(content.parts[i]) \/ content.parts[i].type = TagImage

\* sep.join(strs)
RECURSIVE Join(_, _)
Join(sep, strs) ==
    IF strs = << >>
    THEN << >>
    ELSE IF Len(strs) = 1
    THEN strs[1]
    ELSE strs[1] \o sep \o Join(sep, Tail(strs))

\* [part.text for part in parts if isinstance(part, TextContent) or part.type == "text"]
RECURSIVE TextParts(_)
TextParts(parts) ==
    IF parts = << >>
    THEN << >>
    ELSE IF IsTextContent(Head(parts)) \/ Head(parts).type = TagText
    THEN << Head(parts).text >> \o TextParts(Tail(parts))
    ELSE TextParts(Tail(parts))

\* A plausible slip: the texts are joined with nothing between them.
get_text_content_NoSeparator(content) ==
    IF content.kind = "str"
    THEN content.s
    ELSE Join(<< >>, TextParts(content.parts))

get_text_content(content) ==
    IF content.kind = "str"
    THEN content.s
    ELSE Join(<< "\n" >>, TextParts(content.parts))

\* ------------------------------------------------------------------- state

VARIABLES
    base_url,       \* PLPClient.base_url, a str
    api_key,        \* PLPClient.api_key, an Optional[str]
    headers,        \* PLPClient.headers, a dict of str
    timeout,        \* PLPClient.timeout, an int
    jsonErrorIsRequestException,
                    \* the installed requests: TRUE when Response.json() raises
                    \* requests.exceptions.JSONDecodeError (a RequestException
                    \* and a ValueError, requests >= 2.27), FALSE when it raises
                    \* a plain ValueError
    session,        \* PLPClient.session: "open" from __init__, "closed" after close()
    scope,          \* the caller's with-statement on the client: "none" while
                    \* none was entered, then "inside", then "exited"
    calls,          \* per caller: the call in progress on this client
    codecIn,        \* content conversions: the input drawn
    codecWire,      \* content conversions: Optional result of content_to_dict
    codecOut,       \* content conversions: Optional result of content_from_dict
    helperOut       \* content helpers: Optional results of is_multi_modal and
                    \* get_text_content on the input drawn

\* The configuration __init__ stores.
configVars == << base_url, api_key, headers, timeout >>

clientVars == << base_url, api_key, headers, timeout, jsonErrorIsRequestException,
                 session, scope >>

codecVars == << codecIn, codecWire, codecOut, helperOut >>

vars == << base_url, api_key, headers, timeout, jsonErrorIsRequestException,
           session, scope, calls, codecIn, codecWire, codecOut, helperOut >>

\* ----------------------------------------------- inputs of the conversions

\* All sequences over S of length at most n.
SeqsUpTo(S, n) == UNION { [1..k -> S] : k \in 0..n }

Texts == { << >>, << "First" >>, << "Second" >> }

Urls == { << "https:", "/", "/", "e", "/", "i.png" >> }

\* ImageUrl.detail: absent, the empty string, or a level.
Details == { None, Some(<< >>), Some(<< "low" >>) }

ContentParts ==
    { TextContent(t) : t \in Texts }
    \cup { ImageContent(ImageUrl(u, d)) : u \in Urls, d \in Details }

PromptContents ==
    { StrContent(t) : t \in Texts }
    \cup { ListContent(ps) : ps \in SeqsUpTo(ContentParts, MaxParts) }

\* Wire objects offered to content_part_from_dict: well-formed ones, one with
\* an unknown tag, and ones with a field missing.
WireParts ==
    { Part_to_dict(p) : p \in ContentParts }
    \cup { [type |-> << "bogus" >>],
           [type |-> << "video" >>, text |-> << "First" >>],
           [type |-> TagText],
           [text |-> << "First" >>],
           [type |-> TagImage],
           [type |-> TagImage, image_url |-> [detail |-> << "low" >>]] }

WireContents ==
    { StrContent(t) : t \in Texts }
    \cup { ListContent(ps) : ps \in SeqsUpTo(WireParts, MaxParts) }
    \cup { [kind |-> "number"] }

CodecIdle == [kind |-> "none"]

CodecInit ==
    /\ codecIn \in { [kind |-> "value", x |-> x] : x \in PromptContents }
                   \cup { [kind |-> "wire", w |-> w] : w \in WireContents }
    /\ codecWire = None
    /\ codecOut = None
    /\ helperOut = None

\* content_to_dict applied to the value drawn.
Encode ==
    /\ codecIn.kind = "value"
    /\ codecWire = None
    /\ codecWire' = Some(content_to_dict(codecIn.x))
    /\ UNCHANGED << clientVars, calls, codecIn, codecOut, helperOut >>

\* content_from_dict applied to the encoding of the value drawn.
DecodeEncoded ==
    /\ codecIn.kind = "value"
    /\ codecWire # None
    /\ codecOut = None
    /\ codecOut' = Some(content_from_dict(codecWire[1]))
    /\ UNCHANGED << clientVars, calls, codecIn, codecWire, helperOut >>

\* content_from_dict applied to the wire value drawn.
DecodeWire ==
    /\ codecIn.kind = "wire"
    /\ codecOut = None
    /\ codecOut' = Some(content_from_dict(codecIn.w))
    /\ UNCHANGED << clientVars, calls, codecIn, codecWire, helperOut >>

\* --------------------------------------------------------- prompt entities

EmptyDict == [k \in {} |-> << >>]

\* A parsed JSON value as Python holds it: None, a dict, a list or a str.
PyNone == [t |-> "none"]

PyDict(d) == [t |-> "dict", d |-> d]

PyList == [t |-> "list"]

PyStr == [t |-> "str"]

PromptEnvelope(id, content, meta) == [id |-> id, content |-> content, meta |-> meta]

\* data["id"], content_from_dict(data["content"]), data.get("meta", {}), in
\* that order; subscripting None, a list or a str with a str raises TypeError.
PromptEnvelope_from_dict(data) ==
    IF data.t # "dict"
    THEN RaiseBuiltin("TypeError", << "not subscriptable with a str" >>)
    ELSE IF "id" \notin DOMAIN data.d
    THEN RaiseBuiltin("KeyError", << "id" >>)
    ELSE IF "content" \notin DOMAIN data.d
    THEN RaiseBuiltin("KeyError", << "content" >>)
    ELSE LET content == content_from_dict(data.d.content)
         IN  IF ~content.ok
             THEN content
             ELSE Ok(PromptEnvelope(data.d.id, content.val,
                                    IF "meta" \in DOMAIN data.d
                                    THEN data.d.meta
                                    ELSE EmptyDict))

\* PromptInput(content, meta): meta is an Optional dict, stored as meta or {}.
PromptInput(content, meta) ==
    [content |-> content,
     meta |-> IF meta = None \/ meta[1] = EmptyDict THEN EmptyDict ELSE meta[1]]

PromptInput_to_dict(self) ==
    [content |-> content_to_dict(self.content), meta |-> self.meta]

\* is_multi_modal on the content drawn and on an envelope that holds it, and
\* get_text_content on the content drawn.
ApplyHelpers ==
    /\ codecIn.kind = "value"
    /\ helperOut = None
    /\ helperOut' =
          Some([is_multi_modal |-> is_multi_modal(codecIn.x),
                is_multi_modal_envelope |->
                    is_multi_modal(PromptEnvelope(<< "a", "/", "b" >>, codecIn.x, EmptyDict)),
                get_text_content |-> get_text_content(codecIn.x)])
    /\ UNCHANGED << clientVars, calls, codecIn, codecWire, codecOut >>

\* ------------------------------------------------------------------ errors

\* The classes an exception is an instance of, as the except clauses see it.
ExceptionBases(exc) ==
    CASE exc = "Timeout" -> { "Timeout", "RequestException" }
      [] exc = "ConnectionError" -> { "ConnectionError", "RequestException" }
      [] exc = "JSONDecodeError" ->
            { "JSONDecodeError", "RequestException", "ValueError" }
      [] OTHER -> { exc }

PLPError(message, status_code, response) ==
    Raise("PLPError", message, status_code, response)

\* ------------------------------------------------------------------ client

DefaultTimeout == 10

PathPrefix == << "/", "v1", "/", "prompts", "/" >>

IntToStr(n) == << ToString(n) >>

\* str.rstrip("/")
RECURSIVE RStripSlash(_)
RStripSlash(s) ==
    IF s # << >> /\ s[Len(s)] = "/"
    THEN RStripSlash(SubSeq(s, 1, Len(s) - 1))
    ELSE s

\* A plausible slip: the caller's headers are merged first, the default last.
DefaultHeaders_DefaultLast ==
    [k \in {"Content-Type"} \cup DOMAIN headers |->
        IF k = "Content-Type" THEN << "application/json" >> ELSE headers[k]]

\* {"Content-Type": "application/json", **self.headers}
DefaultHeaders ==
    [k \in {"Content-Type"} \cup DOMAIN headers |->
        IF k \in DOMAIN headers THEN headers[k] ELSE << "application/json" >>]

\* A plausible slip: the key header does not replace a caller's Authorization.
RequestHeaders_KeepCaller ==
    IF TruthyOpt(api_key)
    THEN [k \in DOMAIN DefaultHeaders \cup {"Authorization"} |->
            IF k \in DOMAIN DefaultHeaders
            THEN DefaultHeaders[k]
            ELSE << "Bearer " >> \o api_key[1]]
    ELSE DefaultHeaders

\* The headers of _request: the merge, then the key header when api_key is truthy.
RequestHeaders ==
    IF TruthyOpt(api_key)
    THEN [k \in DOMAIN DefaultHeaders \cup {"Authorization"} |->
            IF k = "Authorization"
            THEN << "Bearer " >> \o api_key[1]
            ELSE DefaultHeaders[k]]
    ELSE DefaultHeaders

\* The arguments _request hands to session.request.
request_send(method, path, json) ==
    [method |-> method, url |-> base_url \o path, json |-> json,
     headers |-> RequestHeaders, timeout |-> timeout]

Response_ok(response) == response.status_code < 400

\* Response.json(): the parsed body, or the decode error of the installed requests.
Response_json(response) ==
    IF response.body.kind = "json"
    THEN Ok(response.body.data)
    ELSE RaiseBuiltin(IF jsonErrorIsRequestException
                      THEN "JSONDecodeError"
                      ELSE "ValueError",
                      << "Expecting value" >>)

\* The try block of _request from the point session.request returns or raises:
\* the evaluation, and how many times response.json() was called.
request_try(outcome) ==
    IF ~outcome.ok
    THEN [res |-> outcome, parsed |-> 0]
    ELSE LET response == outcome.val
         IN  IF response.status_code = 204
             THEN [res |-> Ok(PyNone), parsed |-> 0]
             ELSE LET data == Response_json(response)
                  IN  [parsed |-> 1,
                       res |->
                         IF ~data.ok
                         THEN data
                         ELSE IF ~Response_ok(response)
                         THEN IF data.val.t = "dict"
                              THEN PLPError(
                                     IF "error" \in DOMAIN data.val.d
                                     THEN data.val.d.error
                                     ELSE << "HTTP " >> \o IntToStr(response.status_code),
                                     Some(response.status_code),
                                     Some(data.val))
                              ELSE RaiseBuiltin("AttributeError",
                                                << "object has no attribute 'get'" >>)
                         ELSE data]

\* A plausible slip: the body is parsed before the 204 test.
request_complete_ParseFirst(outcome) ==
    IF outcome.ok /\ outcome.val.status_code = 204
    THEN LET data == Response_json(outcome.val)
         IN  [parsed |-> 1,
              res |-> IF data.ok
                      THEN Ok(PyNone)
                      ELSE PLPError(<< "Invalid JSON response: " >> \o data.message,
                                    None, None)]
    ELSE [parsed |-> request_try(outcome).parsed,
          res |-> request_try(outcome).res]

\* _request after session.request: the try block, then the except clauses in
\* their order (Timeout, RequestException, ValueError).
request_complete(outcome) ==
    LET t == request_try(outcome)
    IN  [parsed |-> t.parsed,
         res |->
           IF t.res.ok
           THEN t.res
           ELSE IF "Timeout" \in ExceptionBases(t.res.exc)
           THEN PLPError(<< "Request timeout after " >> \o IntToStr(timeout) \o << "s" >>,
                         None, None)
           ELSE IF "RequestException" \in ExceptionBases(t.res.exc)
           THEN PLPError(<< "Network error: " >> \o t.res.message, None, None)
           ELSE IF "ValueError" \in ExceptionBases(t.res.exc)
           THEN PLPError(<< "Invalid JSON response: " >> \o t.res.message, None, None)
           ELSE t.res]

\* A plausible slip: the version is appended whenever it is not None.
get_path_AnyVersion(prompt_id, version) ==
    IF version # None
    THEN PathPrefix \o prompt_id \o << "/" >> \o version[1]
    ELSE PathPrefix \o prompt_id

get_path(prompt_id, version) ==
    IF TruthyOpt(version)
    THEN PathPrefix \o prompt_id \o << "/" >> \o version[1]
    ELSE PathPrefix \o prompt_id

get_send(prompt_id, version) == request_send("GET", get_path(prompt_id, version), None)

get_complete(outcome) ==
    LET r == request_complete(outcome)
    IN  [parsed |-> r.parsed,
         res |-> IF r.res.ok THEN PromptEnvelope_from_dict(r.res.val) ELSE r.res]

put_send(prompt_id, input) ==
    request_send("PUT", PathPrefix \o prompt_id, Some(PromptInput_to_dict(input)))

put_complete(outcome) ==
    LET r == request_complete(outcome)
    IN  [parsed |-> r.parsed,
         res |-> IF r.res.ok THEN PromptEnvelope_from_dict(r.res.val) ELSE r.res]

delete_send(prompt_id) == request_send("DELETE", PathPrefix \o prompt_id, None)

delete_complete(outcome) ==
    LET r == request_complete(outcome)
    IN  [parsed |-> r.parsed, res |-> IF r.res.ok THEN Ok(PyNone) ELSE r.res]

\* A plausible slip: the alias does not pass the version on.
fetch_send_NoVersion(prompt_id, version) == get_send(prompt_id, None)

fetch_send(prompt_id, version) == get_send(prompt_id, version)

fetch_complete(outcome) == get_complete(outcome)

save_send(prompt_id, input) == put_send(prompt_id, input)

save_complete(outcome) == put_complete(outcome)

\* ------------------------------------------------- inputs of the operations

Callers == { "c1", "c2" }

\* The caller of the sequential specification.
MainCaller == "c1"

Ops == { "get", "put", "delete", "fetch", "save" }

BaseUrlArgs == { << "https:", "/", "/", "h" >>, << "https:", "/", "/", "h", "/" >> }

ApiKeyArgs == { None, Some(<< >>), Some(<< "k1" >>) }

CallerHeaderValue ==
    [k \in { "Content-Type", "Authorization", "X-Trace" } |->
        CASE k = "Content-Type" -> << "text/plain" >>
          [] k = "Authorization" -> << "Basic abc" >>
          [] OTHER -> << "t1" >>]

\* The headers argument: None, or a dict over some of the names above.
HeaderArgs ==
    { None } \cup { Some([k \in ks |-> CallerHeaderValue[k]]) :
                        ks \in SUBSET DOMAIN CallerHeaderValue }

TimeoutArgs == { DefaultTimeout, 30 }

PromptIds == { << "a", "/", "b" >> }

\* The version argument: omitted, the empty string, or a version.
VersionArgs == { None, Some(<< >>), Some(<< "1.0.0" >>) }

MetaArgs == { None, Some([v |-> << "1" >>]) }

InputContents ==
    { StrContent(<< "hello" >>),
      ListContent(<< TextContent(<< "First" >>),
                     ImageContent(ImageUrl(<< "https:", "/", "/", "e", "/", "i.png" >>, None)) >>) }

PromptInputs == { PromptInput(c, m) : c \in InputContents, m \in MetaArgs }

\* The arguments of a call: version is read by get and fetch, input by put and save.
NoArgs == [prompt_id |-> << >>, version |-> None, input |-> None]

ArgsOf(op) ==
    IF op \in { "get", "fetch" }
    THEN { [prompt_id |-> i, version |-> v, input |-> None] :
               i \in PromptIds, v \in VersionArgs }
    ELSE IF op \in { "put", "save" }
    THEN { [prompt_id |-> i, version |-> None, input |-> Some(x)] :
               i \in PromptIds, x \in PromptInputs }
    ELSE { [prompt_id |-> i, version |-> None, input |-> None] : i \in PromptIds }

Statuses == { 200, 201, 204, 404, 500 }

EnvelopeMeta == [v |-> << "1" >>]

\* Parsed bodies a server may send: envelopes, well-formed or not, error
\* objects, and JSON that is not an object.
JsonBodies ==
    { PyDict([id |-> << "a", "/", "b" >>, content |-> StrContent(<< "hello" >>),
              meta |-> EnvelopeMeta]),
      PyDict([id |-> << "a", "/", "b" >>,
              content |-> ListContent(<< [type |-> TagText, text |-> << "First" >>],
                                         [type |-> TagImage,
                                          image_url |-> [url |-> << "i.png" >>]] >>)]),
      PyDict([content |-> StrContent(<< "hello" >>), meta |-> EnvelopeMeta]),
      PyDict([id |-> << "a", "/", "b" >>, meta |-> EnvelopeMeta]),
      PyDict([id |-> << "a", "/", "b" >>,
              content |-> ListContent(<< [type |-> << "bogus" >>] >>),
              meta |-> EnvelopeMeta]),
      PyDict([id |-> << "a", "/", "b" >>,
              content |-> ListContent(<< [type |-> TagText] >>),
              meta |-> EnvelopeMeta]),
      PyDict([error |-> << "Prompt not found" >>]),
      PyDict([message |-> << "oops" >>]),
      PyList,
      PyStr }

Bodies == { [kind |-> "notjson"] } \cup { [kind |-> "json", data |-> j] : j \in JsonBodies }

\* What session.request does: raise Timeout, raise another RequestException,
\* or return a response.
Outcomes ==
    { RaiseBuiltin("Timeout", << "timed out" >>),
      RaiseBuiltin("ConnectionError", << "connection refused" >>) }
    \cup { Ok([status_code |-> st, body |-> b]) : st \in Statuses, b \in Bodies }

\* ------------------------------------------------------------- operations

IdleCall ==
    [pc |-> "Idle", op |-> "none", args |-> NoArgs, request |-> None,
     sent |-> 0, parsed |-> 0, outcome |-> None, result |-> None]

\* PLPClient.__init__
ClientInit ==
    \E b \in BaseUrlArgs, k \in ApiKeyArgs, h \in HeaderArgs, t \in TimeoutArgs :
        /\ base_url = RStripSlash(b)
        /\ api_key = k
        /\ headers = (IF h = None \/ h[1] = EmptyDict THEN EmptyDict ELSE h[1])
        /\ timeout = t
        /\ session = "open"

op_send(op, args) ==
    CASE op = "get" -> get_send(args.prompt_id, args.version)
      [] op = "fetch" -> fetch_send(args.prompt_id, args.version)
      [] op = "put" -> put_send(args.prompt_id, args.input[1])
      [] op = "save" -> save_send(args.prompt_id, args.input[1])
      [] op = "delete" -> delete_send(args.prompt_id)

op_complete(op, outcome) ==
    CASE op = "get" -> get_complete(outcome)
      [] op = "fetch" -> fetch_complete(outcome)
      [] op = "put" -> put_complete(outcome)
      [] op = "save" -> save_complete(outcome)
      [] op = "delete" -> delete_complete(outcome)

\* A plausible slip: the request headers are built in self.headers itself
\* (headers = self.headers, then the assignments), not in a fresh dict.
Invoke_SharedHeaders(c, op, args) ==
    /\ calls[c].pc = "Idle"
    /\ calls' = [calls EXCEPT ![c] =
                    [@ EXCEPT !.pc = "Sending", !.op = op, !.args = args,
                              !.request = Some(op_send(op, args)),
                              !.sent = @ + 1]]
    /\ headers' = RequestHeaders
    /\ UNCHANGED << base_url, api_key, timeout, jsonErrorIsRequestException,
                    session, scope, codecVars >>

\* Caller c calls op(args): the method runs up to session.request, which
\* receives the request.
Invoke(c, op, args) ==
    /\ calls[c].pc = "Idle"
    /\ calls' = [calls EXCEPT ![c] =
                    [@ EXCEPT !.pc = "Sending", !.op = op, !.args = args,
                              !.request = Some(op_send(op, args)),
                              !.sent = @ + 1]]
    /\ UNCHANGED << clientVars, codecVars >>

\* A plausible slip: a timed-out request is sent again.
Answer_RetryTimeout(c, outcome) ==
    /\ calls[c].pc = "Sending"
    /\ IF ~outcome.ok /\ outcome.exc = "Timeout" /\ calls[c].sent < 2
       THEN calls' = [calls EXCEPT ![c].sent = @ + 1]
       ELSE LET r == op_complete(calls[c].op, outcome)
            IN  calls' = [calls EXCEPT ![c] =
                            [@ EXCEPT !.pc = IF r.res.ok THEN "Success" ELSE "Failed",
                                      !.parsed = @ + r.parsed,
                                      !.outcome = Some(outcome),
                                      !.result = Some(r.res)]]
    /\ UNCHANGED << clientVars, codecVars >>

\* session.request returns or raises, and the method of caller c runs to its
\* end: it returns a value (Success) or raises (Failed).
Answer(c, outcome) ==
    /\ calls[c].pc = "Sending"
    /\ LET r == op_complete(calls[c].op, outcome)
       IN  calls' = [calls EXCEPT ![c] =
                       [@ EXCEPT !.pc = IF r.res.ok THEN "Success" ELSE "Failed",
                                 !.parsed = @ + r.parsed,
                                 !.outcome = Some(outcome),
                                 !.result = Some(r.res)]]
    /\ UNCHANGED << clientVars, codecVars >>

\* The caller has its result and is free to make its next call.
NextCall(c) ==
    /\ calls[c].pc \in { "Success", "Failed" }
    /\ calls' = [calls EXCEPT ![c] = IdleCall]
    /\ UNCHANGED << clientVars, codecVars >>

\* PLPClient.__enter__: the with-statement is entered; it returns self.
Enter ==
    /\ scope = "none"
    /\ scope' = "inside"
    /\ UNCHANGED << base_url, api_key, headers, timeout, jsonErrorIsRequestException,
                    session, calls, codecVars >>

\* A plausible slip: the session is closed only when the body raised nothing.
PLPClient_exit_SkipOnError(exc_info) ==
    IF exc_info # None THEN session ELSE "closed"

\* PLPClient.__exit__(*args): the state of the session after
\* self.session.close(), whatever exception the body left with.
PLPClient_exit(exc_info) == "closed"

\* The body of caller c's with-statement ends, normally or with the exception
\* of its last call, and __exit__ runs.
Exit(c) ==
    /\ scope = "inside"
    /\ calls[c].pc # "Sending"
    /\ session' = PLPClient_exit(IF calls[c].pc = "Failed"
                                 THEN Some(calls[c].result[1].exc)
                                 ELSE None)
    /\ scope' = "exited"
    /\ UNCHANGED << base_url, api_key, headers, timeout, jsonErrorIsRequestException,
                    calls, codecVars >>

\* ---------------------------------------------------------- specifications

\* One caller making calls one after another on a client of any configuration.
Init ==
    /\ ClientInit
    /\ jsonErrorIsRequestException \in BOOLEAN
    /\ calls = [c \in Callers |-> IdleCall]
    /\ scope = "none"
    /\ codecIn = CodecIdle
    /\ codecWire = None
    /\ codecOut = None
    /\ helperOut = None

Next ==
    \/ \E op \in Ops : \E args \in ArgsOf(op) : Invoke(MainCaller, op, args)
    \/ \E outcome \in Outcomes : Answer(MainCaller, outcome)
    \/ NextCall(MainCaller)

Spec == Init /\ [][Next]_vars

\* The content conversions applied to every input within the bounds.
InitCodec ==
    /\ base_url = << "https:", "/", "/", "h" >>
    /\ api_key = None
    /\ headers = EmptyDict
    /\ timeout = DefaultTimeout
    /\ jsonErrorIsRequestException = TRUE
    /\ session = "open"
    /\ scope = "none"
    /\ calls = [c \in Callers |-> IdleCall]
    /\ CodecInit

\* One caller using the client in a with-statement: it enters, makes its
\* calls one after another in the body, and leaves when the body ends or a
\* call raises.
NextScope ==
    \/ Enter
    \/ /\ scope = "inside"
       /\ \E op \in Ops : \E args \in ArgsOf(op) : Invoke(MainCaller, op, args)
    \/ /\ scope = "inside"
       /\ \E outcome \in Outcomes : Answer(MainCaller, outcome)
    \/ /\ scope = "inside"
       /\ NextCall(MainCaller)
    \/ Exit(MainCaller)

ScopeSpec == Init /\ [][NextScope]_vars

\* The arguments and transport outcomes of the calls of concurrent callers.
ConcurrentArgsOf(op) ==
    { a \in ArgsOf(op) :
        /\ a.version \in { None, Some(<< "1.0.0" >>) }
        /\ a.input \in { None, Some(PromptInput(StrContent(<< "hello" >>), None)) } }

ConcurrentOutcomes ==
    { o \in Outcomes :
        \/ ~o.ok /\ o.exc = "Timeout"
        \/ /\ o.ok
           /\ \/ o.val.status_code = 204 /\ o.val.body.kind = "notjson"
              \/ o.val.status_code = 500 /\ o.val.body.kind = "notjson"
              \/ /\ o.val.status_code = 200
                 /\ o.val.body.kind = "json"
                 /\ o.val.body.data.t = "dict"
                 /\ { "id", "content", "meta" } \subseteq DOMAIN o.val.body.data.d
                 /\ o.val.body.data.d.content.kind = "str"
              \/ /\ o.val.status_code = 404
                 /\ o.val.body.kind = "json"
                 /\ o.val.body.data.t = "dict"
                 /\ "error" \in DOMAIN o.val.body.data.d }

\* A client shared by the callers, with or without a key and extra headers.
InitConcurrent ==
    /\ Init
    /\ api_key \in { None, Some(<< "k1" >>) }
    /\ DOMAIN headers \in { {}, { "Authorization", "X-Trace" } }
    /\ timeout = DefaultTimeout

\* Several callers calling the one client, their calls interleaved in any way.
NextConcurrent ==
    \E c \in Callers :
        \/ \E op \in Ops : \E args \in ConcurrentArgsOf(op) : Invoke(c, op, args)
        \/ \E outcome \in ConcurrentOutcomes : Answer(c, outcome)
        \/ NextCall(c)

ConcurrentSpec == InitConcurrent /\ [][NextConcurrent]_vars

NextCodec == Encode \/ DecodeEncoded \/ DecodeWire \/ ApplyHelpers

CodecSpec == InitCodec /\ [][NextCodec]_vars

\* ------------------------------------------------------------------ claims

Terminal(c) == calls[c].pc \in { "Success", "Failed" }

\* The call of c has handed its request to session.request.
Sent(c) == calls[c].request # None

IsImagePart(p) == p.type = TagImage

IsSuffix(t, s) == Len(t) <= Len(s) /\ SubSeq(s, Len(s) - Len(t) + 1, Len(s)) = t

\* The value drawn has been encoded and decoded back.
RoundTripDone == codecIn.kind = "value" /\ codecWire # None /\ codecOut # None

\* No image part of content x carries the empty string as its detail.
NoEmptyDetail(x) ==
    x.kind = "list" =>
        \A i \in 1..Len(x.parts) :
            IsImagePart(x.parts[i]) => x.parts[i].image_url.detail # Some(<< >>)

\* C1 as stated: for every PromptContent x whose image details are any string
\* or absent, content_from_dict(content_to_dict(x)) equals x.
C1_RoundTripAnyDetail ==
    RoundTripDone => codecOut[1] = Ok(codecIn.x)

\* C1 amended: for every PromptContent x (a string, or a sequence of text and
\* image parts whose detail is a non-empty string or absent),
\* content_from_dict(content_to_dict(x)) equals x, part for part in the same
\* order; an image part whose detail is absent or empty encodes with no
\* "detail" key and decodes back with detail absent.
C1_RoundTrip ==
    RoundTripDone =>
        /\ NoEmptyDetail(codecIn.x) => codecOut[1] = Ok(codecIn.x)
        /\ codecIn.x.kind = "list" =>
              /\ codecOut[1].ok
              /\ Len(codecWire[1].parts) = Len(codecIn.x.parts)
              /\ \A i \in 1..Len(codecIn.x.parts) :
                    LET p == codecIn.x.parts[i]
                    IN  (IsImagePart(p) /\ p.image_url.detail \in { None, Some(<< >>) }) =>
                            /\ "detail" \notin DOMAIN codecWire[1].parts[i].image_url
                            /\ codecOut[1].val.parts[i].image_url.detail = None

\* A two-part sequence holding an image without detail and an image with one
\* has made the round trip.
C1_Witness ==
    /\ RoundTripDone
    /\ codecIn.x.kind = "list"
    /\ Len(codecIn.x.parts) = 2
    /\ IsImagePart(codecIn.x.parts[1])
    /\ codecIn.x.parts[1].image_url.detail = None
    /\ IsImagePart(codecIn.x.parts[2])
    /\ codecIn.x.parts[2].image_url.detail = Some(<< "low" >>)
    /\ codecOut[1] = Ok(codecIn.x)

\* C2 as stated: every finished call returned its value or raised PLPError.
C2_OnlyPLPError ==
    \A c \in Callers :
        Terminal(c) => (calls[c].result[1].ok \/ calls[c].result[1].exc = "PLPError")

\* The transport returned a response whose status is not a success status.
NonSuccessResponse(outcome) == outcome.ok /\ outcome.val.status_code >= 400

\* C3 as stated: a response with a non-success status makes the call fail with
\* a PLPError whose status_code is that status, whose response is the parsed
\* body when there is one, and whose message is the body's "error" field or
\* else "HTTP {status}", whatever the body is.
C3_ApplicationError ==
    \A c \in Callers :
        (Terminal(c) /\ NonSuccessResponse(calls[c].outcome[1])) =>
            LET response == calls[c].outcome[1].val
                err == calls[c].result[1]
                hasError == /\ response.body.kind = "json"
                            /\ response.body.data.t = "dict"
                            /\ "error" \in DOMAIN response.body.data.d
            IN  /\ ~err.ok
                /\ err.exc = "PLPError"
                /\ err.status_code = Some(response.status_code)
                /\ response.body.kind = "json" => err.response = Some(response.body.data)
                /\ err.message = IF hasError
                                 THEN response.body.data.d.error
                                 ELSE << "HTTP " >> \o << ToString(response.status_code) >>

\* C4: delete on a response with status 204 succeeds: it returns None, raises
\* nothing and never calls response.json().
C4_Delete204 ==
    \A c \in Callers :
        (/\ Terminal(c)
         /\ calls[c].op = "delete"
         /\ calls[c].outcome[1].ok
         /\ calls[c].outcome[1].val.status_code = 204) =>
            /\ calls[c].pc = "Success"
            /\ calls[c].result[1] = Ok(PyNone)
            /\ calls[c].parsed = 0

\* A delete has finished on a 204 response whose body is not JSON.
C4_Witness ==
    /\ calls[MainCaller].pc = "Success"
    /\ calls[MainCaller].op = "delete"
    /\ calls[MainCaller].outcome[1].ok
    /\ calls[MainCaller].outcome[1].val.status_code = 204
    /\ calls[MainCaller].outcome[1].val.body.kind = "notjson"

\* The request of get / put / delete as the claim fixes it from the arguments;
\* withVersion says when get appends the version.
ExpectedRequest(c, withVersion) ==
    LET a == calls[c].args
        r == calls[c].request[1]
        prompt == base_url \o << "/", "v1", "/", "prompts", "/" >> \o a.prompt_id
    IN  CASE calls[c].op = "get" ->
                /\ r.method = "GET"
                /\ r.url = IF withVersion THEN prompt \o << "/" >> \o a.version[1] ELSE prompt
                /\ r.json = None
          [] calls[c].op = "put" ->
                /\ r.method = "PUT"
                /\ r.url = prompt
                /\ r.json # None
                /\ DOMAIN r.json[1] = { "content", "meta" }
                /\ r.json[1].content = content_to_dict(a.input[1].content)
                /\ r.json[1].meta = a.input[1].meta
          [] calls[c].op = "delete" ->
                /\ r.method = "DELETE"
                /\ r.url = prompt
                /\ r.json = None
          [] OTHER -> TRUE

\* C5 as stated: get appends "/{version}" for every supplied version, the
\* empty string included.
C5_RequestAnyVersion ==
    \A c \in Callers :
        Sent(c) => ExpectedRequest(c, calls[c].args.version # None)

\* C5 amended: get(id) sends GET base_url + "/v1/prompts/{id}" with no body;
\* get(id, version) sends GET base_url + "/v1/prompts/{id}/{version}" for every
\* supplied non-empty version, and for the empty string the same request as
\* get(id); put(id, input) sends PUT base_url + "/v1/prompts/{id}" with body
\* exactly {content: content_to_dict(input.content), meta: input.meta};
\* delete(id) sends DELETE base_url + "/v1/prompts/{id}" with no body.
C5_RequestFixedByArguments ==
    \A c \in Callers :
        Sent(c) =>
            ExpectedRequest(c, calls[c].args.version \notin { None, Some(<< >>) })

\* A get with a version has sent its request.
C5_Witness ==
    /\ Sent(MainCaller)
    /\ calls[MainCaller].op = "get"
    /\ calls[MainCaller].args.version = Some(<< "1.0.0" >>)
    /\ IsSuffix(<< "b", "/", "1.0.0" >>, calls[MainCaller].request[1].url)

\* A call that has not started has sent nothing; one that has started has
\* handed exactly one request to the transport.
C6_SentOnce ==
    \A c \in Callers :
        /\ calls[c].pc = "Idle" => calls[c].sent = 0
        /\ calls[c].pc # "Idle" => calls[c].sent = 1

\* The only steps of a call: Idle -> Sending with its one request; Sending ->
\* Success or Failed with nothing further sent; and, from a terminal state,
\* nothing but the caller starting afresh with its next call.
C6_Steps ==
    [][\A c \in Callers :
          \/ calls[c]' = calls[c]
          \/ /\ calls[c].pc = "Idle"
             /\ calls[c]'.pc = "Sending"
             /\ calls[c]'.sent = 1
          \/ /\ calls[c].pc = "Sending"
             /\ calls[c]'.pc \in { "Success", "Failed" }
             /\ calls[c]'.sent = calls[c].sent
             /\ calls[c]'.request = calls[c].request
          \/ /\ calls[c].pc \in { "Success", "Failed" }
             /\ calls[c]' = IdleCall]_vars

\* C6: every call goes Idle -> Sending -> (Success | Failed) and stops there;
\* it hands exactly one request to the transport, whatever the outcome, and
\* reaches a terminal state once the transport answers or fails: while it
\* is Sending the answer can be taken, the method returns or raises on every
\* outcome of the transport, and the step that takes the answer is the step
\* into Success or Failed.
C6_SingleAttempt ==
    /\ []C6_SentOnce
    /\ C6_Steps
    /\ [](\A c \in Callers :
              calls[c].pc = "Sending" =>
                  /\ ENABLED (\E outcome \in Outcomes : Answer(c, outcome))
                  /\ \A outcome \in Outcomes :
                        op_complete(calls[c].op, outcome).res.ok \in BOOLEAN)

\* A call whose request timed out has failed, having sent one request.
C6_Witness ==
    /\ calls[MainCaller].pc = "Failed"
    /\ ~calls[MainCaller].outcome[1].ok
    /\ calls[MainCaller].outcome[1].exc = "Timeout"
    /\ calls[MainCaller].sent = 1

\* The wire part p carries a tag other than "text" and "image_url".
UnknownTag(p) == "type" \in DOMAIN p /\ p.type \notin { << "text" >>, << "image_url" >> }

\* The wire part p has its tag and the fields its tag requires.
WellFormedWirePart(p) ==
    /\ "type" \in DOMAIN p
    /\ p.type = << "text" >> => "text" \in DOMAIN p
    /\ p.type = << "image_url" >> =>
          ("image_url" \in DOMAIN p /\ "url" \in DOMAIN p.image_url)
    /\ p.type \in { << "text" >>, << "image_url" >> }

\* C7: decoding a sequence that holds a part with an unknown tag fails as a
\* whole and yields no content; when that part is the first that cannot be
\* decoded, the failure is the ValueError that carries its tag.
C7_UnknownTagFails ==
    (codecIn.kind = "wire" /\ codecIn.w.kind = "list" /\ codecOut # None) =>
        \A i \in 1..Len(codecIn.w.parts) :
            UnknownTag(codecIn.w.parts[i]) =>
                /\ ~codecOut[1].ok
                /\ "val" \notin DOMAIN codecOut[1]
                /\ (\A j \in 1..(i - 1) : WellFormedWirePart(codecIn.w.parts[j])) =>
                      /\ codecOut[1].exc = "ValueError"
                      /\ IsSuffix(codecIn.w.parts[i].type, codecOut[1].message)

\* A sequence of a well-formed text part followed by a part tagged "bogus"
\* has been decoded.
C7_Witness ==
    /\ codecIn.kind = "wire"
    /\ codecIn.w.kind = "list"
    /\ Len(codecIn.w.parts) = 2
    /\ codecIn.w.parts[1] = [type |-> << "text" >>, text |-> << "First" >>]
    /\ codecIn.w.parts[2] = [type |-> << "bogus" >>]
    /\ codecOut # None

\* C8 as stated: every request carries Content-Type: application/json, also
\* when the caller's extra headers hold their own Content-Type.
C8_ContentTypeAlwaysJson ==
    \A c \in Callers :
        Sent(c) =>
            /\ "Content-Type" \in DOMAIN calls[c].request[1].headers
            /\ calls[c].request[1].headers["Content-Type"] = << "application/json" >>

\* C8 amended: every request carries a Content-Type header; its value is
\* "application/json" unless the caller's extra headers hold their own
\* Content-Type entry, and then it is the caller's value.
C8_ContentType ==
    \A c \in Callers :
        Sent(c) =>
            /\ "Content-Type" \in DOMAIN calls[c].request[1].headers
            /\ calls[c].request[1].headers["Content-Type"] =
                  IF "Content-Type" \in DOMAIN headers
                  THEN headers["Content-Type"]
                  ELSE << "application/json" >>

\* A request has been sent by a client whose extra headers hold a Content-Type.
C8_Witness ==
    /\ Sent(MainCaller)
    /\ "Content-Type" \in DOMAIN headers
    /\ calls[MainCaller].request[1].headers["Content-Type"] = << "text/plain" >>

\* C9: with an API key configured (a non-empty key, which is how the client
\* reads it), every request carries Authorization = "Bearer {key}", also when
\* the caller's extra headers hold another Authorization; every other
\* caller-supplied header is sent unchanged.
C9_KeyHeaderWins ==
    \A c \in Callers :
        Sent(c) =>
            LET sentHeaders == calls[c].request[1].headers
                keyed == api_key # None /\ api_key[1] # << >>
            IN  /\ keyed =>
                      /\ "Authorization" \in DOMAIN sentHeaders
                      /\ sentHeaders["Authorization"] = << "Bearer " >> \o api_key[1]
                /\ \A k \in DOMAIN headers :
                      (k # "Authorization" \/ ~keyed) =>
                          (k \in DOMAIN sentHeaders /\ sentHeaders[k] = headers[k])

\* A request has been sent by a client with a key whose extra headers hold
\* another Authorization and one more header.
C9_Witness ==
    /\ Sent(MainCaller)
    /\ api_key = Some(<< "k1" >>)
    /\ { "Authorization", "X-Trace" } \subseteq DOMAIN headers
    /\ headers["Authorization"] # << "Bearer ", "k1" >>

\* The failure kind of a transport outcome: timeout, network failure,
\* application error (a response with a non-success status) or malformed
\* response (a response with a success status whose body is read and is not
\* JSON); "none" for the outcomes that are none of these.
CauseKind(outcome) ==
    IF ~outcome.ok
    THEN IF outcome.exc = "Timeout" THEN "timeout" ELSE "network"
    ELSE IF outcome.val.status_code >= 400
    THEN "application"
    ELSE IF outcome.val.status_code # 204 /\ outcome.val.body.kind = "notjson"
    THEN "malformed"
    ELSE "none"

\* C10 as stated: a call that failed for a cause of one of the four kinds
\* raised an error that differs from the error of every cause of another
\* kind; its status_code is unset for a timeout, a network failure and a
\* malformed response, and set for an application error.
C10_KindsDistinguishable ==
    \A c \in Callers :
        (Terminal(c) /\ CauseKind(calls[c].outcome[1]) # "none") =>
            LET err == calls[c].result[1]
                kind == CauseKind(calls[c].outcome[1])
            IN  /\ ~err.ok
                /\ kind \in { "timeout", "network", "malformed" } => err.status_code = None
                /\ kind = "application" => err.status_code # None
                /\ \A other \in Outcomes :
                      CauseKind(other) \notin { "none", kind } =>
                          op_complete(calls[c].op, other).res # err

\* C11: the session is released when the client's with-statement is left,
\* after a body whose calls all succeeded and after a body in which a call
\* raised; the body that has ended can always leave, and once released the
\* session is not open again in any later step.
C11_SessionReleased ==
    /\ [](scope = "exited" => session = "closed")
    /\ [](scope = "inside" /\ calls[MainCaller].pc # "Sending" => ENABLED Exit(MainCaller))
    /\ [][session = "closed" => session' = "closed"]_vars

\* The with-statement has been left by the error of a failed call.
C11_Witness ==
    /\ scope = "exited"
    /\ calls[MainCaller].pc = "Failed"
    /\ calls[MainCaller].result[1].exc = "PLPError"
    /\ session = "closed"

\* C12: under any interleaving of the calls of several callers, each call's
\* request is the one its own arguments and the client's configuration fix
\* and its result the one its own response fixes; a step of one call changes
\* nothing of another call; and no step writes base_url, api_key, headers or
\* timeout.
C12_CallsIndependent ==
    /\ [](\A c \in Callers :
            /\ Sent(c) => calls[c].request[1] = op_send(calls[c].op, calls[c].args)
            /\ Terminal(c) =>
                  calls[c].result[1] = op_complete(calls[c].op, calls[c].outcome[1]).res)
    /\ [][\A c, d \in Callers :
            (c # d /\ calls[c]' # calls[c]) => calls[d]' = calls[d]]_vars
    /\ [][configVars' = configVars]_vars

\* One caller has finished a get while the put of another is with the
\* transport.
C12_Witness ==
    /\ calls["c1"].pc = "Sending"
    /\ calls["c1"].op = "put"
    /\ calls["c2"].pc = "Success"
    /\ calls["c2"].op = "get"
    /\ calls["c1"].request # calls["c2"].request

\* C13: fetch and save are renames: a fetch(id, version) has sent the request
\* get(id, version) sends and ends, on the same transport outcome, with the
\* return value or error of get; a save(id, input) likewise with put.
C13_AliasesAreRenames ==
    \A c \in Callers :
        /\ (calls[c].op = "fetch" /\ Sent(c)) =>
              calls[c].request[1] = get_send(calls[c].args.prompt_id, calls[c].args.version)
        /\ (calls[c].op = "save" /\ Sent(c)) =>
              calls[c].request[1] = put_send(calls[c].args.prompt_id, calls[c].args.input[1])
        /\ (calls[c].op = "fetch" /\ Terminal(c)) =>
              /\ calls[c].result[1] = get_complete(calls[c].outcome[1]).res
              /\ (calls[c].pc = "Success") = get_complete(calls[c].outcome[1]).res.ok
        /\ (calls[c].op = "save" /\ Terminal(c)) =>
              /\ calls[c].result[1] = put_complete(calls[c].outcome[1]).res
              /\ (calls[c].pc = "Success") = put_complete(calls[c].outcome[1]).res.ok

\* A fetch with a version has returned an envelope.
C13_Witness ==
    /\ calls[MainCaller].op = "fetch"
    /\ calls[MainCaller].args.version = Some(<< "1.0.0" >>)
    /\ calls[MainCaller].pc = "Success"
    /\ calls[MainCaller].result[1].val.id = << "a", "/", "b" >>
    /\ IsSuffix(<< "/", "1.0.0" >>, calls[MainCaller].request[1].url)

\* The helpers have been applied to the content drawn.
HelpersDone == codecIn.kind = "value" /\ helperOut # None

\* C14: is_multi_modal is false for every string content and for every
\* sequence of text parts only, and true exactly when the sequence holds at
\* least one image part; for an envelope it answers as for its content.
C14_IsMultiModal ==
    HelpersDone =>
        LET x == codecIn.x
            images == IF x.kind = "str"
                      THEN {}
                      ELSE { i \in 1..Len(x.parts) : x.parts[i].type = << "image_url" >> }
        IN  /\ helperOut[1].is_multi_modal = (Cardinality(images) >= 1)
            /\ x.kind = "str" => helperOut[1].is_multi_modal = FALSE
            /\ helperOut[1].is_multi_modal_envelope = helperOut[1].is_multi_modal

\* The helpers have been applied to a text part followed by an image part.
C14_Witness ==
    /\ HelpersDone
    /\ codecIn.x.kind = "list"
    /\ Len(codecIn.x.parts) = 2
    /\ codecIn.x.parts[1].type = << "text" >>
    /\ codecIn.x.parts[2].type = << "image_url" >>
    /\ helperOut[1].is_multi_modal
    /\ helperOut[1].is_multi_modal_envelope

\* The text fields of the text parts of a part sequence, in their order.
TextsInOrder(parts) ==
    LET textParts == SelectSeq(parts, LAMBDA p : p.type = << "text" >>)
    IN  [k \in 1..Len(textParts) |-> textParts[k].text]

\* Where the k-th of the texts ts begins in their newline-joined string: after
\* the texts before it and one separator for each.
RECURSIVE OffsetOf(_, _)
OffsetOf(ts, k) == IF k = 1 THEN 0 ELSE OffsetOf(ts, k - 1) + Len(ts[k - 1]) + 1

\* C15: get_text_content returns string content unchanged; for a sequence it
\* returns the texts of the text parts in their order, each at its place,
\* with exactly one newline between neighbours and nothing else, image parts
\* skipped; with no text part it returns the empty string.
C15_GetTextContent ==
    HelpersDone =>
        LET x == codecIn.x
            r == helperOut[1].get_text_content
        IN  /\ x.kind = "str" => r = x.s
            /\ x.kind = "list" =>
                  LET ts == TextsInOrder(x.parts)
                  IN  /\ ts = << >> => r = << >>
                      /\ ts # << >> =>
                            /\ Len(r) = OffsetOf(ts, Len(ts)) + Len(ts[Len(ts)])
                            /\ \A k \in 1..Len(ts) :
                                  /\ SubSeq(r, OffsetOf(ts, k) + 1,
                                            OffsetOf(ts, k) + Len(ts[k])) = ts[k]
                                  /\ k > 1 => r[OffsetOf(ts, k)] = "\n"

\* get_text_content has been applied to two text parts with an image part
\* between them.
C15_Witness ==
    /\ HelpersDone
    /\ codecIn.x.kind = "list"
    /\ Len(codecIn.x.parts) = 3
    /\ codecIn.x.parts[1] = [type |-> << "text" >>, text |-> << "First" >>]
    /\ codecIn.x.parts[2].type = << "image_url" >>
    /\ codecIn.x.parts[3] = [type |-> << "text" >>, text |-> << "Second" >>]
    /\ helperOut[1].get_text_content = << "First", "\n", "Second" >>

====
